---------------------------- MODULE Spec2Model ----------------------------
(***************************************************************************)
(* A model of the singly linked list of src/lib.rs: the recursive Node     *)
(* enum (Empty, Tail, Parent), the in-place operations on it, and the      *)
(* LinkedList handle that owns the root node.                              *)
(*                                                                         *)
(* A node is a record: [tag |-> "Empty"], [tag |-> "Tail", value |-> v] or *)
(* [tag |-> "Parent", value |-> v, next |-> n].  A &mut self method is an  *)
(* operator from the node to a record holding the node afterwards, the     *)
(* value returned and the panic raised, if any.  Option<T> is a sequence   *)
(* of length at most one: None is <<>>, Some(v) is <<v>>.                  *)
(***************************************************************************)
EXTENDS Integers, Sequences, FiniteSets, TLC

\* Bounds of the model.
MaxValue == 2
MaxLen == 2
MaxPushes == 5

Values == 0..MaxValue

\* The inputs of LinkedList::from: the sequences of at most MaxLen values.
InputSeqs == UNION {[1..n -> Values] : n \in 0..MaxLen}

----------------------------------------------------------------------------
\* enum Node<T>

NodeEmpty == [tag |-> "Empty"]

NodeTail(v) == [tag |-> "Tail", value |-> v]

NodeParent(v, n) == [tag |-> "Parent", value |-> v, next |-> n]

\* Option<T>
None == <<>>

Some(v) == <<v>>

\* The panics of the program.
NoFault == "none"

ValuePanic == "expected value node"

UnwrapPanic == "called Option::unwrap() on a None value"

is_tail(n) == n.tag = "Tail"

is_empty(n) == n.tag = "Empty"

\* Node::value consumes the node; it panics on Empty.
value(n) ==
    IF n.tag = "Empty"
    THEN [fault |-> ValuePanic, val |-> 0]
    ELSE [fault |-> NoFault, val |-> n.value]

\* Node::next: Some(next) for a Parent, None otherwise.
next(n) == IF n.tag = "Parent" THEN Some(n.next) ELSE None

RECURSIVE size(_)
\* size with the Tail arm counted as nothing.
size_tail_is_zero(n) ==
    CASE n.tag = "Empty" -> 0
      [] n.tag = "Tail" -> 0
      [] n.tag = "Parent" -> 1 + size(n.next)

\* size with the Parent arm counting only its successor.
size_skips_parent(n) ==
    CASE n.tag = "Empty" -> 0
      [] n.tag = "Tail" -> 1
      [] n.tag = "Parent" -> size(n.next)

size(n) ==
    CASE n.tag = "Empty" -> 0
      [] n.tag = "Tail" -> 1
      [] n.tag = "Parent" -> 1 + size(n.next)

\* to_parent with the two values the wrong way round.
to_parent_swapped(n, child_value) ==
    LET extracted == value(n)
    IN  IF extracted.fault # NoFault
        THEN [node |-> NodeEmpty, fault |-> extracted.fault]
        ELSE [node |-> NodeParent(child_value, NodeTail(extracted.val)),
              fault |-> NoFault]

\* Node::to_parent: swap self with an Empty placeholder, take the value out
\* of the placeholder, write the Parent back.  A panic leaves the placeholder.
to_parent(n, child_value) ==
    LET placeholder == n
        extracted == value(placeholder)
    IN  IF extracted.fault # NoFault
        THEN [node |-> NodeEmpty, fault |-> extracted.fault]
        ELSE [node |-> NodeParent(extracted.val, NodeTail(child_value)),
              fault |-> NoFault]

\* to_empty taking the value from self after the swap, not the placeholder.
to_empty_reads_self(n) ==
    LET extracted == value(NodeEmpty)
    IN  [node |-> NodeEmpty, ret |-> extracted.val, fault |-> extracted.fault]

\* to_empty without the swap: the value is read and the node stays.
to_empty_keeps_node(n) ==
    LET extracted == value(n)
    IN  [node |-> n, ret |-> extracted.val, fault |-> extracted.fault]

\* Node::to_empty
to_empty(n) ==
    LET placeholder == n
        extracted == value(placeholder)
    IN  [node |-> NodeEmpty, ret |-> extracted.val, fault |-> extracted.fault]

RECURSIVE push(_, _)
\* push with the Parent arm sharing the Tail arm: to_parent on a Parent keeps
\* its value and replaces its successor.
push_parent_as_tail(n, val) ==
    CASE n.tag = "Empty" -> [node |-> NodeTail(val), fault |-> NoFault]
      [] OTHER -> to_parent(n, val)

push(n, val) ==
    CASE n.tag = "Empty" -> [node |-> NodeTail(val), fault |-> NoFault]
      [] n.tag = "Tail" -> to_parent(n, val)
      [] n.tag = "Parent" ->
            LET r == push(n.next, val)
            IN  [node |-> NodeParent(n.value, r.node), fault |-> r.fault]

\* push_front that always takes the early return into push.
push_front_appends(n, val) == push(n, val)

\* push_front without the early return on an empty node.
push_front_no_empty_check(n, val) ==
    [node |-> NodeParent(val, n), fault |-> NoFault]

push_front(n, val) ==
    IF is_empty(n)
    THEN push(n, val)
    ELSE LET new_child == n
         IN  [node |-> NodeParent(val, new_child), fault |-> NoFault]

RECURSIVE pop(_), to_tail(_)
\* to_tail without the final rewrite of self: the popped successor stays.
to_tail_keeps_parent(n) ==
    LET r == pop(n.next)
    IN  [node |-> NodeParent(n.value, r.node), ret |-> r.ret,
         fault |-> r.fault]

\* to_tail keeping the value popped and returning its own.
to_tail_keeps_popped(n) ==
    LET r == pop(n.next)
    IN  [node |-> NodeTail(r.ret[1]), ret |-> Some(n.value),
         fault |-> NoFault]

\* to_tail that rebuilds self before popping the successor: the Box it pops
\* is dropped with the placeholder and self stays a Parent of an Empty.
to_tail_pops_late(n) ==
    [node |-> NodeParent(n.value, NodeEmpty), ret |-> Some(n.next.value),
     fault |-> NoFault]

\* Node::to_tail: pop the successor, then rebuild self as a Tail around its
\* own value.  The two unwraps and Node::value are the places it can panic.
to_tail(n) ==
    LET nx == next(n)
    IN  IF nx = None
        THEN [node |-> n, ret |-> None, fault |-> UnwrapPanic]
        ELSE
          LET r == pop(nx[1])
              afterPop == NodeParent(n.value, r.node)
          IN  IF r.fault # NoFault
              THEN [node |-> afterPop, ret |-> None, fault |-> r.fault]
              ELSE IF r.ret = None
              THEN [node |-> afterPop, ret |-> None, fault |-> UnwrapPanic]
              ELSE
                LET popped_val == r.ret[1]
                    placeholder == afterPop
                    extracted == value(placeholder)
                IN  IF extracted.fault # NoFault
                    THEN [node |-> NodeEmpty, ret |-> None,
                          fault |-> extracted.fault]
                    ELSE [node |-> NodeTail(extracted.val),
                          ret |-> Some(popped_val), fault |-> NoFault]

\* pop with the Parent arm returning this node's value, keeping the last.
pop_returns_own_value(n) ==
    CASE n.tag = "Empty" -> [node |-> n, ret |-> None, fault |-> NoFault]
      [] n.tag = "Tail" ->
            [node |-> NodeEmpty, ret |-> Some(n.value), fault |-> NoFault]
      [] n.tag = "Parent" ->
            IF is_tail(n.next)
            THEN [node |-> n.next, ret |-> Some(n.value), fault |-> NoFault]
            ELSE LET r == pop(n.next)
                 IN  [node |-> NodeParent(n.value, r.node), ret |-> r.ret,
                      fault |-> r.fault]

\* pop with no Empty arm: every node goes through to_empty or to_tail.
pop_no_empty_arm(n) ==
    IF n.tag = "Parent"
    THEN IF is_tail(n.next)
         THEN to_tail(n)
         ELSE LET r == pop(n.next)
              IN  [node |-> NodeParent(n.value, r.node), ret |-> r.ret,
                   fault |-> r.fault]
    ELSE LET r == to_empty(n)
         IN  [node |-> r.node,
              ret |-> IF r.fault = NoFault THEN Some(r.ret) ELSE None,
              fault |-> r.fault]

pop(n) ==
    CASE n.tag = "Empty" -> [node |-> n, ret |-> None, fault |-> NoFault]
      [] n.tag = "Tail" ->
            LET r == to_empty(n)
            IN  [node |-> r.node,
                 ret |-> IF r.fault = NoFault THEN Some(r.ret) ELSE None,
                 fault |-> r.fault]
      [] n.tag = "Parent" ->
            IF is_tail(n.next)
            THEN to_tail(n)
            ELSE LET r == pop(n.next)
                 IN  [node |-> NodeParent(n.value, r.node), ret |-> r.ret,
                      fault |-> r.fault]

\* pop_front returning the value of the node moved up, not of the old self.
pop_front_returns_next_value(n) ==
    CASE n.tag = "Empty" -> [node |-> n, ret |-> None, fault |-> NoFault]
      [] n.tag = "Tail" ->
            [node |-> NodeEmpty, ret |-> Some(n.value), fault |-> NoFault]
      [] n.tag = "Parent" ->
            [node |-> n.next, ret |-> Some(n.next.value), fault |-> NoFault]

\* pop_front without the first swap: the successor is dropped with old self.
pop_front_drops_rest(n) ==
    CASE n.tag = "Empty" -> [node |-> n, ret |-> None, fault |-> NoFault]
      [] n.tag = "Tail" ->
            [node |-> NodeEmpty, ret |-> Some(n.value), fault |-> NoFault]
      [] n.tag = "Parent" ->
            [node |-> NodeEmpty, ret |-> Some(n.value), fault |-> NoFault]

\* pop_front without the second swap: self keeps its value and the emptied
\* box, and the value returned is the successor's.
pop_front_forgets_swap(n) ==
    CASE n.tag = "Empty" -> [node |-> n, ret |-> None, fault |-> NoFault]
      [] n.tag = "Tail" ->
            [node |-> NodeEmpty, ret |-> Some(n.value), fault |-> NoFault]
      [] n.tag = "Parent" ->
            LET extracted == value(n.next)
            IN  [node |-> NodeParent(n.value, NodeEmpty),
                 ret |-> IF extracted.fault = NoFault
                         THEN Some(extracted.val) ELSE None,
                 fault |-> extracted.fault]

\* Node::pop_front: the Parent arm swaps the successor out of the box, swaps
\* it into self, and takes the value of the old self.
pop_front(n) ==
    CASE n.tag = "Empty" -> [node |-> n, ret |-> None, fault |-> NoFault]
      [] n.tag = "Tail" ->
            LET r == to_empty(n)
            IN  [node |-> r.node,
                 ret |-> IF r.fault = NoFault THEN Some(r.ret) ELSE None,
                 fault |-> r.fault]
      [] n.tag = "Parent" ->
            LET new_self == n.next
                old_self == NodeParent(n.value, NodeEmpty)
                extracted == value(old_self)
            IN  [node |-> new_self,
                 ret |-> IF extracted.fault = NoFault
                         THEN Some(extracted.val) ELSE None,
                 fault |-> extracted.fault]

----------------------------------------------------------------------------
\* impl LinkedList<T>

\* vec.reverse() left out.
reverse_keeps_order(s) == s

\* Vec::reverse
Reverse(s) == [i \in 1..Len(s) |-> s[Len(s) + 1 - i]]

new == [node |-> NodeEmpty, fault |-> NoFault]

\* The for_each of LinkedList::from: push every item of the iterator.
RECURSIVE for_each_push(_, _)
for_each_push(list, it) ==
    IF it = <<>> \/ list.fault # NoFault
    THEN list
    ELSE for_each_push(push(list.node, Head(it)), Tail(it))

from(it) == for_each_push(new, it)

from_iter(iter) == from(iter)

\* The while-let loop of LinkedList::to_vec: pop until None, pushing each
\* value popped onto vec.
RECURSIVE drain(_, _)
drain(n, vec) ==
    LET r == pop(n)
    IN  IF r.fault # NoFault \/ r.ret = None
        THEN [node |-> r.node, ret |-> vec, fault |-> r.fault]
        ELSE drain(r.node, Append(vec, r.ret[1]))

\* to_vec without vec.reverse().
to_vec_no_reverse(n) == drain(n, <<>>)

to_vec(n) ==
    LET d == drain(n, <<>>)
    IN  [node |-> d.node,
         ret |-> IF d.fault = NoFault THEN Reverse(d.ret) ELSE d.ret,
         fault |-> d.fault]

----------------------------------------------------------------------------
\* The logical sequence a chain stands for, front first.
RECURSIVE ToSeq(_)
ToSeq(n) ==
    CASE n.tag = "Empty" -> <<>>
      [] n.tag = "Tail" -> <<n.value>>
      [] n.tag = "Parent" -> <<n.value>> \o ToSeq(n.next)

\* The nodes holding a value that a call of Node::push, Node::pop and
\* Node::size runs on: the node itself and, through next, its successors.
RECURSIVE push_visits(_)
push_visits(n) ==
    CASE n.tag = "Empty" -> 0
      [] n.tag = "Tail" -> 1
      [] n.tag = "Parent" -> 1 + push_visits(n.next)

RECURSIVE pop_visits(_)
pop_visits(n) ==
    CASE n.tag = "Empty" -> 0
      [] n.tag = "Tail" -> 1
      [] n.tag = "Parent" -> 1 + pop_visits(n.next)

RECURSIVE size_visits(_)
size_visits(n) ==
    CASE n.tag = "Empty" -> 0
      [] n.tag = "Tail" -> 1
      [] n.tag = "Parent" -> 1 + size_visits(n.next)

\* Node::push_front and Node::pop_front move the successor without a call
\* on it.
push_front_visits(n) == IF is_empty(n) THEN push_visits(n) ELSE 1

pop_front_visits(n) == IF is_empty(n) THEN 0 ELSE 1

\* The variants of the nodes of a chain, root first.
RECURSIVE TagSeq(_)
TagSeq(n) ==
    IF n.tag = "Parent" THEN <<n.tag>> \o TagSeq(n.next) ELSE <<n.tag>>

\* The calls of the concrete scenario, in order.
Scenario ==
    << [op |-> "push", arg |-> <<1>>],
       [op |-> "push", arg |-> <<2>>],
       [op |-> "push_front", arg |-> <<0>>],
       [op |-> "pop", arg |-> <<>>],
       [op |-> "pop_front", arg |-> <<>>],
       [op |-> "pop", arg |-> <<>>],
       [op |-> "pop_front", arg |-> <<>>] >>

OffScenario == Len(Scenario) + 1

\* The position in the scenario after one more call.
Advance(s, o, a) ==
    IF s < Len(Scenario) /\ Scenario[s + 1] = [op |-> o, arg |-> a]
    THEN s + 1
    ELSE OffScenario

\* How many times each value occurs in a sequence.
BagOf(s) == [v \in Values |-> Cardinality({i \in DOMAIN s : s[i] = v})]

BagSum(a, b) == [v \in Values |-> a[v] + b[v]]

----------------------------------------------------------------------------
VARIABLES
    node,      \* LinkedList.node, the root of the chain
    alive,     \* the handle exists: to_vec(self) has not consumed it
    fault,     \* the panic that aborted the program, or NoFault
    op,        \* the last call made
    arg,       \* its arguments
    ret,       \* what it returned
    pre,       \* the root before it
    origin,    \* <<[kind, input]>> while the list is as its constructor
               \* built it, <<>> once a push or a pop was called on it
    pushes,    \* Node::push and push_front calls since construction
    pops,      \* pops that returned Some since construction
    step,      \* how many calls of Scenario the calls made on a list built
               \* empty have followed, OffScenario once they left it
    pc,        \* where a to_vec call taken loop iteration by loop iteration
               \* is: "idle" (none), "loop", "reverse" or "done"
    vec,       \* the local vec of that call
    removed,   \* the values its loop popped, in the order it popped them
    calls,     \* the Node::pop calls its loop made
    given,     \* how many times each value was pushed since construction
    taken      \* how many times a pop returned each value since construction

loopvars == <<pc, vec, removed, calls>>

vars ==
    <<node, alive, fault, op, arg, ret, pre, origin, pushes, pops, step,
      pc, vec, removed, calls, given, taken>>

\* The state a constructor leaves: kind is "new", "from" or "from_iter".
Built(kind, s) ==
    CASE kind = "new" -> new
      [] kind = "from" -> from(s)
      [] kind = "from_iter" -> from_iter(s)

Init ==
    \E kind \in {"new", "from", "from_iter"}, s \in InputSeqs :
        /\ kind = "new" => s = <<>>
        /\ Len(s) <= MaxPushes
        /\ node = Built(kind, s).node
        /\ fault = Built(kind, s).fault
        /\ alive = TRUE
        /\ op = kind
        /\ arg = IF kind = "new" THEN <<>> ELSE <<s>>
        /\ ret = <<>>
        /\ pre = NodeEmpty
        /\ origin = <<[kind |-> kind, input |-> s]>>
        /\ pushes = Len(s)
        /\ pops = 0
        /\ step = IF s = <<>> THEN 0 ELSE OffScenario
        /\ pc = "idle"
        /\ vec = <<>>
        /\ removed = <<>>
        /\ calls = 0
        /\ given = BagOf(s)
        /\ taken = BagOf(<<>>)

\* A new handle replaces the one to_vec consumed.
Construct(kind, s) ==
    /\ ~alive
    /\ pc \in {"idle", "done"}
    /\ fault = NoFault
    /\ Len(s) <= MaxPushes
    /\ node' = Built(kind, s).node
    /\ fault' = Built(kind, s).fault
    /\ alive' = TRUE
    /\ op' = kind
    /\ arg' = IF kind = "new" THEN <<>> ELSE <<s>>
    /\ ret' = <<>>
    /\ pre' = NodeEmpty
    /\ origin' = <<[kind |-> kind, input |-> s]>>
    /\ pushes' = Len(s)
    /\ pops' = 0
    /\ step' = IF s = <<>> THEN 0 ELSE OffScenario
    /\ pc' = "idle"
    /\ vec' = <<>>
    /\ removed' = <<>>
    /\ calls' = 0
    /\ given' = BagOf(s)
    /\ taken' = BagOf(<<>>)

New == Construct("new", <<>>)

From == \E s \in InputSeqs : Construct("from", s)

FromIter == \E s \in InputSeqs : Construct("from_iter", s)

Push ==
    \E val \in Values :
        /\ alive /\ fault = NoFault
        /\ pushes < MaxPushes
        /\ LET r == push(node, val)
           IN  /\ node' = r.node
               /\ fault' = r.fault
        /\ op' = "push"
        /\ arg' = <<val>>
        /\ ret' = <<>>
        /\ pre' = node
        /\ origin' = <<>>
        /\ pushes' = pushes + 1
        /\ step' = Advance(step, "push", <<val>>)
        /\ given' = BagSum(given, BagOf(<<val>>))
        /\ UNCHANGED <<alive, pops, taken>>
        /\ UNCHANGED loopvars

PushFront ==
    \E val \in Values :
        /\ alive /\ fault = NoFault
        /\ pushes < MaxPushes
        /\ LET r == push_front(node, val)
           IN  /\ node' = r.node
               /\ fault' = r.fault
        /\ op' = "push_front"
        /\ arg' = <<val>>
        /\ ret' = <<>>
        /\ pre' = node
        /\ origin' = <<>>
        /\ pushes' = pushes + 1
        /\ step' = Advance(step, "push_front", <<val>>)
        /\ given' = BagSum(given, BagOf(<<val>>))
        /\ UNCHANGED <<alive, pops, taken>>
        /\ UNCHANGED loopvars

Pop ==
    /\ alive /\ fault = NoFault
    /\ LET r == pop(node)
       IN  /\ node' = r.node
           /\ fault' = r.fault
           /\ ret' = r.ret
           /\ pops' = pops + Len(r.ret)
           /\ taken' = BagSum(taken, BagOf(r.ret))
    /\ op' = "pop"
    /\ arg' = <<>>
    /\ pre' = node
    /\ origin' = <<>>
    /\ step' = Advance(step, "pop", <<>>)
    /\ UNCHANGED <<alive, pushes, given>>
    /\ UNCHANGED loopvars

PopFront ==
    /\ alive /\ fault = NoFault
    /\ LET r == pop_front(node)
       IN  /\ node' = r.node
           /\ fault' = r.fault
           /\ ret' = r.ret
           /\ pops' = pops + Len(r.ret)
           /\ taken' = BagSum(taken, BagOf(r.ret))
    /\ op' = "pop_front"
    /\ arg' = <<>>
    /\ pre' = node
    /\ origin' = <<>>
    /\ step' = Advance(step, "pop_front", <<>>)
    /\ UNCHANGED <<alive, pushes, given>>
    /\ UNCHANGED loopvars

\* LinkedList::size borrows the list: the chain is not written.
Size ==
    /\ alive /\ fault = NoFault
    /\ op' = "size"
    /\ arg' = <<>>
    /\ ret' = size(node)
    /\ pre' = node
    /\ step' = OffScenario
    /\ UNCHANGED <<node, alive, fault, origin, pushes, pops, given, taken>>
    /\ UNCHANGED loopvars

\* LinkedList::to_vec takes self by value: the handle is gone afterwards.
ToVec ==
    /\ alive /\ fault = NoFault
    /\ LET r == to_vec(node)
       IN  /\ node' = r.node
           /\ fault' = r.fault
           /\ ret' = r.ret
           /\ pops' = pops + Len(r.ret)
           /\ taken' = BagSum(taken, BagOf(r.ret))
    /\ alive' = FALSE
    /\ op' = "to_vec"
    /\ arg' = <<>>
    /\ pre' = node
    /\ step' = OffScenario
    /\ UNCHANGED <<origin, pushes, given>>
    /\ UNCHANGED loopvars

Next ==
    \/ New
    \/ From
    \/ FromIter
    \/ Push
    \/ PushFront
    \/ Pop
    \/ PopFront
    \/ Size
    \/ ToVec

Spec == Init /\ [][Next]_vars

----------------------------------------------------------------------------
\* LinkedList::to_vec one loop iteration at a time.

\* The call: self is moved into to_vec and vec starts empty.
ToVecCall ==
    /\ alive /\ fault = NoFault
    /\ pc = "idle"
    /\ alive' = FALSE
    /\ pc' = "loop"
    /\ vec' = <<>>
    /\ removed' = <<>>
    /\ calls' = 0
    /\ UNCHANGED <<given, taken>>
    /\ op' = "to_vec"
    /\ arg' = <<>>
    /\ ret' = <<>>
    /\ pre' = node
    /\ step' = OffScenario
    /\ UNCHANGED <<node, fault, origin, pushes, pops>>

\* An iteration whose self.node.pop() is Some(value): vec.push(value).
ToVecSome ==
    /\ pc = "loop" /\ fault = NoFault
    /\ LET r == pop(node)
       IN  /\ r.fault # NoFault \/ r.ret # None
           /\ node' = r.node
           /\ fault' = r.fault
           /\ vec' = vec \o r.ret
           /\ removed' = removed \o r.ret
           /\ pops' = pops + Len(r.ret)
           /\ taken' = BagSum(taken, BagOf(r.ret))
    /\ calls' = calls + 1
    /\ UNCHANGED <<alive, pc, op, arg, ret, pre, origin, pushes, step, given>>

\* The iteration whose self.node.pop() is None: the loop ends.
ToVecNone ==
    /\ pc = "loop" /\ fault = NoFault
    /\ LET r == pop(node)
       IN  /\ r.fault = NoFault /\ r.ret = None
           /\ node' = r.node
    /\ calls' = calls + 1
    /\ pc' = "reverse"
    /\ UNCHANGED <<alive, fault, vec, removed, op, arg, ret, pre, origin,
                   pushes, pops, step, given, taken>>

\* vec.reverse() and the return of vec.
ToVecReturn ==
    /\ pc = "reverse"
    /\ vec' = Reverse(vec)
    /\ ret' = Reverse(vec)
    /\ pc' = "done"
    /\ UNCHANGED <<node, alive, fault, removed, calls, op, arg, pre, origin,
                   pushes, pops, step, given, taken>>

\* The calls on one handle, from its construction (Init) to the return of
\* the to_vec that consumes it.
NextLoop ==
    \/ Push
    \/ PushFront
    \/ Pop
    \/ PopFront
    \/ Size
    \/ ToVecCall
    \/ ToVecSome
    \/ ToVecNone
    \/ ToVecReturn

SpecLoop == Init /\ [][NextLoop]_vars

\* to_vec alone, called on the list as its constructor built it.
NextDrain ==
    \/ ToVecCall
    \/ ToVecSome
    \/ ToVecNone
    \/ ToVecReturn

\* A call runs to completion: the program is single-threaded and no step of
\* to_vec waits for anything.
SpecDrainFair ==
    /\ Init
    /\ [][NextDrain]_vars
    /\ WF_vars(ToVecSome)
    /\ WF_vars(ToVecNone)
    /\ WF_vars(ToVecReturn)

----------------------------------------------------------------------------
\* Properties

Last(s) == s[Len(s)]

Front(s) == SubSeq(s, 1, Len(s) - 1)

C2_SizeInvariant ==
    /\ size(node) = pushes - pops
    /\ size(node) >= 0

C2_Witness ==
    /\ op = "pop_front"
    /\ pushes >= 3
    /\ pops >= 2
    /\ size(node) >= 1

\* C3: variant shape.  Every sub-chain of the list of size 0 is Empty, of
\* size 1 is Tail, and of size 2 or more is a Parent whose next is not Empty:
\* no Empty placeholder is left inside the chain.
RECURSIVE ShapeOK(_)
ShapeOK(n) ==
    /\ size(n) = 0 => is_empty(n)
    /\ size(n) = 1 => is_tail(n)
    /\ size(n) >= 2 => (n.tag = "Parent" /\ ~is_empty(n.next))
    /\ n.tag = "Parent" => ShapeOK(n.next)

C3_VariantShape == ShapeOK(node)

C3_Witness ==
    /\ op = "pop"
    /\ size(pre) >= 3
    /\ size(node) >= 2
    /\ ShapeOK(node)

\* C4: pop on a list of logical sequence s, s not empty, returns Some(last
\* of s) and leaves the logical sequence s without its last element.
C4_PopBack ==
    (op = "pop" /\ Len(ToSeq(pre)) >= 1) =>
        /\ ret = Some(Last(ToSeq(pre)))
        /\ ToSeq(node) = Front(ToSeq(pre))

C4_Witness ==
    /\ op = "pop"
    /\ ToSeq(pre) = <<0, 1, 2>>
    /\ ret = Some(2)
    /\ ToSeq(node) = <<0, 1>>

\* C5: pop_front on a list of logical sequence s, s not empty, returns
\* Some(first of s) and leaves s without its first element; a Parent(v, next)
\* root becomes exactly the former next and v is returned.
C5_PopFront ==
    (op = "pop_front" /\ Len(ToSeq(pre)) >= 1) =>
        /\ ret = Some(Head(ToSeq(pre)))
        /\ ToSeq(node) = Tail(ToSeq(pre))
        /\ pre.tag = "Parent" => (node = pre.next /\ ret = Some(pre.value))

C5_Witness ==
    /\ op = "pop_front"
    /\ ToSeq(pre) = <<0, 1, 2>>
    /\ ret = Some(0)
    /\ node = NodeParent(1, NodeTail(2))

\* C6: push(x) on a list of logical sequence s leaves the logical sequence
\* s followed by x, and a list structurally equal to from(s followed by x).
C6_PushBack ==
    op = "push" =>
        /\ ToSeq(node) = Append(ToSeq(pre), arg[1])
        /\ node = from(Append(ToSeq(pre), arg[1])).node

C6_Witness ==
    /\ op = "push"
    /\ Len(ToSeq(pre)) >= 2
    /\ arg[1] # Last(ToSeq(pre))
    /\ ToSeq(node) = Append(ToSeq(pre), arg[1])

\* C7: push_front(x) on a list of logical sequence s leaves the logical
\* sequence x followed by s, and a list structurally equal to from(x followed
\* by s); on an empty list it leaves what push(x) leaves, Tail(x).
C7_PushFront ==
    op = "push_front" =>
        /\ ToSeq(node) = <<arg[1]>> \o ToSeq(pre)
        /\ node = from(<<arg[1]>> \o ToSeq(pre)).node
        /\ is_empty(pre) =>
              (node = NodeTail(arg[1]) /\ node = push(pre, arg[1]).node)

C7_Witness ==
    /\ op = "push_front"
    /\ Len(ToSeq(pre)) >= 2
    /\ arg[1] # Head(ToSeq(pre))
    /\ ToSeq(node) = <<arg[1]>> \o ToSeq(pre)

\* C8: pop or pop_front on an empty list returns None without a panic and
\* leaves the list Empty, whatever calls came before it.
C8_EmptyPop ==
    (op \in {"pop", "pop_front"} /\ is_empty(pre)) =>
        /\ ret = None
        /\ fault = NoFault
        /\ node = NodeEmpty

\* pop_front on a list that pushes filled and pops emptied.
C8_Witness ==
    /\ op = "pop_front"
    /\ is_empty(pre)
    /\ pops >= 2
    /\ ret = None
    /\ node = NodeEmpty

\* C9: no call of the public API panics: Node::value is never called on an
\* Empty node and neither unwrap of to_tail sees None.
C9_NoPanic == fault = NoFault

C9_Witness ==
    /\ op = "pop"
    /\ pre.tag = "Parent"
    /\ is_tail(pre.next)
    /\ is_tail(node)
    /\ fault = NoFault

\* C10: the concrete scenario.  From an empty list, push(1), push(2),
\* push_front(0) give [0,1,2] of size 3; pop() returns 2 and leaves [0,1];
\* pop_front() returns 0 and leaves [1]; pop() returns 1 and leaves [] of
\* size 0; pop_front() returns None.
C10_Scenario ==
    /\ step = 3 => (ToSeq(node) = <<0, 1, 2>> /\ size(node) = 3)
    /\ step = 4 => (ret = Some(2) /\ ToSeq(node) = <<0, 1>>)
    /\ step = 5 => (ret = Some(0) /\ ToSeq(node) = <<1>>)
    /\ step = 6 => (ret = Some(1) /\ ToSeq(node) = <<>> /\ size(node) = 0)
    /\ step = 7 => ret = None

C10_Witness ==
    /\ step = Len(Scenario)
    /\ op = "pop_front"
    /\ ret = None

\* C11 (as the claim states it): to_vec removes the front element each time
\* round its loop, and returns the values in the order it removed them.
C11_FrontRemovalOrder ==
    op = "to_vec" =>
        /\ removed = SubSeq(ToSeq(pre), 1, Len(removed))
        /\ pc = "done" => ret = removed

\* C11 (amended): to_vec consumes the handle, removes the back element each
\* time round its loop until the chain is Empty, and returns the values
\* removed in the reverse of the order it removed them, which is the logical
\* order of the list.
C11_ToVecFromBack ==
    (op = "to_vec" /\ pc # "idle") =>
        /\ ~alive
        /\ Len(removed) <= Len(ToSeq(pre))
        /\ ToSeq(node) = SubSeq(ToSeq(pre), 1, Len(ToSeq(pre)) - Len(removed))
        /\ Reverse(removed) =
              SubSeq(ToSeq(pre), Len(ToSeq(pre)) - Len(removed) + 1,
                     Len(ToSeq(pre)))
        /\ pc \in {"reverse", "done"} => node = NodeEmpty
        /\ pc = "done" => (ret = Reverse(removed) /\ ret = ToSeq(pre))

C11_Witness ==
    /\ op = "to_vec"
    /\ pc = "done"
    /\ Len(ret) >= 3
    /\ ret[1] # ret[3]
    /\ removed = <<ret[3], ret[2], ret[1]>>
    /\ ret = ToSeq(pre)

\* C12: value conservation.  While every value pushed is distinct, each value
\* pushed is in the chain exactly once or was returned by exactly one pop,
\* never both and never neither; a value never pushed is in neither.
AllDistinct == \A v \in Values : given[v] <= 1

C12_ValueConservation ==
    AllDistinct =>
        \A v \in Values :
            /\ BagOf(ToSeq(node))[v] + taken[v] = given[v]
            /\ taken[v] <= 1
            /\ BagOf(ToSeq(node))[v] <= 1

C12_Witness ==
    /\ AllDistinct
    /\ op = "pop_front"
    /\ \E v \in Values : given[v] = 1 /\ taken[v] = 1
    /\ \E v \in Values : given[v] = 1 /\ BagOf(ToSeq(node))[v] = 1
    /\ \A v \in Values : given[v] = 1
    /\ size(pre) >= 2

\* The positions at which two sequences of variants differ.
Changed(a, b) == {i \in 1..Len(a) : i > Len(b) \/ a[i] # b[i]}

\* C13: push on a chain of n >= 1 nodes changes the variant of exactly one
\* node, the last, from Tail(v) to Parent(v, Tail(new)); every node before it
\* stays a Parent with its value, and the n values keep their positions.
C13_PushFrame ==
    (op = "push" /\ size(pre) >= 1) =>
        LET n == size(pre)
        IN  /\ TagSeq(pre)[n] = "Tail"
            /\ Changed(TagSeq(pre), TagSeq(node)) = {n}
            /\ TagSeq(node) =
                  SubSeq(TagSeq(pre), 1, n - 1) \o <<"Parent", "Tail">>
            /\ \A i \in 1..(n - 1) : TagSeq(node)[i] = "Parent"
            /\ SubSeq(ToSeq(node), 1, n) = ToSeq(pre)
            /\ ToSeq(node)[n + 1] = arg[1]

C13_Witness ==
    /\ op = "push"
    /\ size(pre) >= 3
    /\ TagSeq(pre) = <<"Parent", "Parent", "Tail">>
    /\ TagSeq(node) = <<"Parent", "Parent", "Parent", "Tail">>
    /\ arg[1] # Last(ToSeq(pre))

\* C14: pop at Parent(v, Tail(w)) leaves Tail(v) and returns w; pop at
\* Parent(v, Parent(..)) keeps the node a Parent with value v, leaves in next
\* what pop leaves of it and returns what that pop returns.  On a chain of
\* n >= 2 nodes only the second-to-last node changes variant, from Parent to
\* Tail, and the nodes before it are unchanged.
C14_PopStep ==
    (op = "pop" /\ pre.tag = "Parent") =>
        LET n == size(pre)
        IN  /\ is_tail(pre.next) =>
                  (node = NodeTail(pre.value) /\ ret = Some(pre.next.value))
            /\ pre.next.tag = "Parent" =>
                  /\ node.tag = "Parent"
                  /\ node.value = pre.value
                  /\ node.next = pop(pre.next).node
                  /\ ret = pop(pre.next).ret
            /\ TagSeq(pre)[n - 1] = "Parent"
            /\ TagSeq(node) = SubSeq(TagSeq(pre), 1, n - 2) \o <<"Tail">>
            /\ Changed(TagSeq(node), TagSeq(pre)) = {n - 1}
            /\ ToSeq(node) = SubSeq(ToSeq(pre), 1, n - 1)

C14_Witness ==
    /\ op = "pop"
    /\ TagSeq(pre) = <<"Parent", "Parent", "Parent", "Tail">>
    /\ TagSeq(node) = <<"Parent", "Parent", "Tail">>
    /\ ret = Some(Last(ToSeq(pre)))
    /\ ret # Some(ToSeq(pre)[3])

\* C15: size() leaves the chain as it was and returns the length of the
\* logical sequence, in every state size() is called in, so also when it is
\* called again.
C15_SizeReadOnly ==
    op = "size" =>
        /\ node = pre
        /\ fault = NoFault
        /\ alive
        /\ ret = Len(ToSeq(node))
        /\ ret = size(node)

C15_Witness ==
    /\ op = "size"
    /\ ret = 3
    /\ node = pre
    /\ TagSeq(node) = <<"Parent", "Parent", "Tail">>

\* C16: draining terminates.  The loop of to_vec on a list of size n makes
\* exactly n pops that return Some, then one that returns None, and stops
\* with the chain Empty; a single call of push, push_front, pop, pop_front or
\* size runs on at most n nodes.
C16_LoopCount ==
    (op = "to_vec" /\ pc # "idle") =>
        /\ Len(removed) <= size(pre)
        /\ pc = "loop" => calls = Len(removed)
        /\ pc \in {"reverse", "done"} =>
              /\ Len(removed) = size(pre)
              /\ calls = size(pre) + 1
              /\ node = NodeEmpty

C16_Visits ==
    /\ op = "push" => push_visits(pre) <= size(pre)
    /\ op = "push_front" => push_front_visits(pre) <= size(pre)
    /\ op = "pop" => pop_visits(pre) <= size(pre)
    /\ op = "pop_front" => pop_front_visits(pre) <= size(pre)
    /\ op = "size" => size_visits(pre) <= size(pre)
    /\ (op = "to_vec" /\ pc # "idle") => pop_visits(node) <= size(pre)

RECURSIVE Canon(_)
Canon(s) ==
    IF s = <<>> THEN NodeEmpty
    ELSE IF Len(s) = 1 THEN NodeTail(s[1])
    ELSE NodeParent(Head(s), Canon(Tail(s)))

\* C17: canonical representation.  The chain of every reachable list is the
\* one chain its logical sequence determines, the chain from builds of that
\* sequence, whatever calls produced it; so two reachable lists are equal
\* exactly when their logical sequences are.
C17_Canonical ==
    /\ node = Canon(ToSeq(node))
    /\ node = from(ToSeq(node)).node

C17_Witness ==
    /\ op = "pop_front"
    /\ origin = <<>>
    /\ pops >= 2
    /\ size(node) >= 3
    /\ node = from(ToSeq(node)).node

\* C18: push/pop inverses.  For every reachable list L and value x, pop
\* after push(x) returns Some(x) and leaves L, and pop_front after
\* push_front(x) returns Some(x) and leaves L: both of the operations applied
\* to L, and of the two calls made one after the other.
C18_InverseOnList ==
    \A x \in Values :
        /\ pop(push(node, x).node) =
              [node |-> node, ret |-> Some(x), fault |-> NoFault]
        /\ pop_front(push_front(node, x).node) =
              [node |-> node, ret |-> Some(x), fault |-> NoFault]

C18_InverseStep ==
    /\ (op = "push" /\ op' = "pop") =>
          (ret' = Some(arg[1]) /\ node' = pre /\ fault' = NoFault)
    /\ (op = "push_front" /\ op' = "pop_front") =>
          (ret' = Some(arg[1]) /\ node' = pre /\ fault' = NoFault)

C18_PushPopInverse ==
    /\ []C18_InverseOnList
    /\ [][C18_InverseStep]_vars

\* The state a pop_front leaves whose list, with the value returned pushed
\* to the front again, is the list it was called on.
C18_Witness ==
    /\ op = "pop_front"
    /\ size(node) >= 2
    /\ ret # None
    /\ pre = push_front(node, ret[1]).node
    /\ pop(push(node, ret[1]).node).node = node

=============================================================================
